---------------------------- MODULE Spec2Model ----------------------------
(***************************************************************************)
(* Verification model of the ice-colder vending machine controller.        *)
(*                                                                         *)
(*   SpecVMC   controller/vmc.py        the UI-driven controller (Tk timer *)
(*                                      callbacks, inventory)              *)
(*   SpecCore  controller/vmc_core.py   the pure FSM with the event store  *)
(*             controller/event_store.py, config/state_model.py            *)
(*   SpecRace  services/virtual_payment_fsm.py  the multi-gateway race     *)
(*   SpecReplay controller/event_store.py  replay_events over any log file *)
(*                                                                         *)
(* Money is counted in minor units (cents); the source keeps it in a float *)
(* of dollars.  The `transitions` library is modelled by Fire/Accepted:    *)
(* the first table entry whose trigger, source and condition match wins,   *)
(* `before` callbacks run before the state changes, and an exception in a  *)
(* `before` callback aborts the transition.                                *)
(***************************************************************************)
EXTENDS Integers, Sequences, FiniteSets, TLC

VARIABLES
    \* ---- VMC (vmc.py and vmc_core.py share these fields)
    state,              \* self.state, managed by the Machine
    credit_escrow,      \* self.credit_escrow
    selected_product,   \* self.selected_product (NoProduct = None)
    inventory,          \* products[p]["inventory_count"]
    pendingPP,          \* tk_root.after callbacks pending for _process_payment
    pendingFD,          \* tk_root.after callbacks pending for _finish_dispensing
    last,               \* what the last call did and returned (observation)
    \* ---- EventStore (event_store.py) and the handler position of vmc_core
    log,                \* the event log file, one record per line
    snapshot,           \* the snapshot file
    events_since_snapshot,
    pc,                 \* position inside on_complete_transaction
    pending_dest,       \* destination of the transition being executed
    replayed,           \* outcome of the last replay_events call (observation)
    recoveries,         \* what each VMC.__init__ since Init reconstructed (observation)
    written,            \* argument and outcome of the last write_snapshot call (observation)
    \* ---- VirtualPaymentFSM (virtual_payment_fsm.py)
    gateways,           \* self.payment_gateways (keys)
    main,               \* position of start_transaction
    tpc,                \* per gateway: position of its _poll_gateway task
    attempts,           \* per gateway: polls done
    tresult,            \* per gateway: the task's result
    grace,              \* tasks whose sleep ends before wait() resumes
    successful_gateway,
    active,
    status,
    virtual_payment_tasks,
    success_order,      \* gateways in the order they notified payment_success
    ret,                \* value returned by start_transaction
    cpc,                \* position of cancel_transaction ("yield" = in its sleep(0))
    cancels,            \* calls of cancel_transaction so far (observation)
    \* ---- the Tk event loop that runs the handlers of vmc.py
    inflight,           \* handlers past their guard check whose effect is still to come
    \* ---- MessageManager (message_manager.py)
    queue,              \* self.queue
    current_timer,      \* self.current_timer (NoTimer = None)
    timers,             \* callbacks scheduled on the device and not yet fired or cancelled
    display,            \* the text on the device ("" = cleared)
    posted,             \* messages in the order they were posted (observation)
    shown,              \* messages in the order they were shown (observation)
    \* ---- configuration migration (config_test.py)
    config,             \* the ConfigModel object handed to migrate_config
    config_file,        \* contents of config.json
    migrations,         \* calls of migrate_config so far (observation)
    saves,              \* calls of save_config so far (observation)
    \* ---- the customer's side of the money
    owed                \* deposits minus refunds paid out minus prices of started dispenses

vmcVars   == <<state, credit_escrow, selected_product, inventory, pendingPP, pendingFD, last>>
storeVars == <<log, snapshot, events_since_snapshot, pc, pending_dest, replayed,
               recoveries, written>>
raceVars  == <<gateways, main, tpc, attempts, tresult, grace, successful_gateway,
               active, status, virtual_payment_tasks, success_order, ret, cpc, cancels>>
loopVars  == <<inflight>>
msgVars   == <<queue, current_timer, timers, display, posted, shown>>
cfgVars   == <<config, config_file, migrations, saves>>
ledgerVars == <<owed>>
appVars   == <<loopVars, msgVars, cfgVars, ledgerVars>>
vars      == <<vmcVars, storeVars, raceVars, appVars>>

---------------------------------------------------------------------------
(* Bounds of the model *)

MaxEscrow == 300        \* deposits are not offered above this balance
MaxDebt == 50           \* negative deposits are not offered below -MaxDebt
MaxPending == 2         \* pending Tk timer callbacks of one kind
InitialStock == 1       \* inventory_count of the tracked product at start
MaxOversell == 1        \* inventory_count is not followed below -MaxOversell
SnapshotEvery == 2      \* EventStore(snapshot_every=...)
MaxLog == 3             \* lines of a log file handed to replay_events
MaxCancels == 2         \* calls of cancel_transaction that are followed
MaxClock == 2           \* distinct readings of the wall clock
MaxRecoveries == 2      \* process starts (VMC.__init__) that are followed
MaxRestarts == 1        \* restarts of the process with its files kept
MaxPosts == 3           \* messages posted to the MessageManager
MaxInflight == 2        \* handlers followed at once, were the loop to allow more than one
MaxMigrations == 3      \* calls of migrate_config in a row

(* Program constants *)

NoProduct == 0          \* selected_product = None
PollLimit == 10         \* for i in range(10)
NoTimer == 0             \* MessageManager.current_timer = None

---------------------------------------------------------------------------
(* Catalogue: product 1 is tracked, product 2 is not.  Index = position in  *)
(* self.products, counted from 1.                                          *)

Products == {1, 2}
Indexes == {1, 2, 3}                 \* 3 is past the end of self.products
Price(p) == IF p = 1 THEN 125 ELSE 150
TrackInventory(p) == p = 1
DepositAmounts == {-25, 0, 25, 100}  \* amount is not validated by the callers' API

States == {"idle", "interacting_with_user", "dispensing", "error"}

---------------------------------------------------------------------------
(* The transition table and the Machine *)

TRANSITIONS_reset_to_interacting ==
    << [trigger |-> "start_interaction", source |-> {"idle"},
        dest |-> "interacting_with_user", cond |-> "none"],
       [trigger |-> "dispense_product", source |-> {"interacting_with_user"},
        dest |-> "dispensing", cond |-> "none"],
       [trigger |-> "complete_transaction", source |-> {"dispensing"},
        dest |-> "interacting_with_user", cond |-> "has_credit"],
       [trigger |-> "complete_transaction", source |-> {"dispensing"},
        dest |-> "idle", cond |-> "unless_has_credit"],
       [trigger |-> "error_occurred", source |-> States,
        dest |-> "error", cond |-> "none"],
       [trigger |-> "reset_state", source |-> {"error"},
        dest |-> "interacting_with_user", cond |-> "none"] >>

TRANSITIONS_error_not_from_dispensing ==
    << [trigger |-> "start_interaction", source |-> {"idle"},
        dest |-> "interacting_with_user", cond |-> "none"],
       [trigger |-> "dispense_product", source |-> {"interacting_with_user"},
        dest |-> "dispensing", cond |-> "none"],
       [trigger |-> "complete_transaction", source |-> {"dispensing"},
        dest |-> "interacting_with_user", cond |-> "has_credit"],
       [trigger |-> "complete_transaction", source |-> {"dispensing"},
        dest |-> "idle", cond |-> "unless_has_credit"],
       [trigger |-> "error_occurred", source |-> States \ {"dispensing"},
        dest |-> "error", cond |-> "none"],
       [trigger |-> "reset_state", source |-> {"error"},
        dest |-> "idle", cond |-> "none"] >>

TRANSITIONS ==
    << [trigger |-> "start_interaction", source |-> {"idle"},
        dest |-> "interacting_with_user", cond |-> "none"],
       [trigger |-> "dispense_product", source |-> {"interacting_with_user"},
        dest |-> "dispensing", cond |-> "none"],
       [trigger |-> "complete_transaction", source |-> {"dispensing"},
        dest |-> "interacting_with_user", cond |-> "has_credit"],
       [trigger |-> "complete_transaction", source |-> {"dispensing"},
        dest |-> "idle", cond |-> "unless_has_credit"],
       [trigger |-> "error_occurred", source |-> States,
        dest |-> "error", cond |-> "none"],
       [trigger |-> "reset_state", source |-> {"error"},
        dest |-> "idle", cond |-> "none"] >>

has_credit_nonneg(credit) == credit >= 0

has_credit(credit) == credit > 0

CondHolds(c, credit) ==
    CASE c = "has_credit" -> has_credit(credit)
      [] c = "unless_has_credit" -> ~has_credit(credit)
      [] OTHER -> TRUE

Matching(trig, st, credit) ==
    {i \in DOMAIN TRANSITIONS :
        /\ TRANSITIONS[i].trigger = trig
        /\ st \in TRANSITIONS[i].source
        /\ CondHolds(TRANSITIONS[i].cond, credit)}

MinOf(S) == CHOOSE x \in S : \A y \in S : x <= y

\* the trigger finds a transition to execute
Accepted(trig, st, credit) == Matching(trig, st, credit) # {}

\* the state after the trigger
Fire(trig, st, credit) ==
    IF Accepted(trig, st, credit)
    THEN TRANSITIONS[MinOf(Matching(trig, st, credit))].dest
    ELSE st

Call(op, result, trigger, fired, amount) ==
    [op |-> op, result |-> result, trigger |-> trigger, fired |-> fired, amount |-> amount]

---------------------------------------------------------------------------
(* controller/vmc.py *)

\* ConfigModel(): config_version "2025.04.14.02" and the default fields
DefaultVersion == "2025.04.14.02"

ConfigModel == [config_version |-> DefaultVersion, firmware_version |-> "1.0.0"]

\* no handler is running and the MessageManager is new: empty deque, no timer
InitUI ==
    /\ inflight = <<>>
    /\ queue = <<>>
    /\ current_timer = NoTimer
    /\ timers = {}
    /\ display = ""
    /\ posted = <<>>
    /\ shown = <<>>
    /\ owed = 0

\* load_config without a file: the default configuration, saved as it is
InitConfig ==
    /\ config = ConfigModel
    /\ config_file = ConfigModel
    /\ migrations = 0
    /\ saves = 0

InitVMCFields ==
    /\ InitUI
    /\ state = "idle"
    /\ credit_escrow = 0
    /\ selected_product = NoProduct
    /\ inventory = [p \in Products |-> IF TrackInventory(p) THEN InitialStock ELSE 0]
    /\ pendingPP = 0
    /\ pendingFD = 0
    /\ last = Call("init", "ok", "none", FALSE, 0)

deposit_funds_body(amount) ==
    /\ credit_escrow + amount <= MaxEscrow
    /\ credit_escrow + amount >= -MaxDebt
    /\ credit_escrow' = credit_escrow + amount
    /\ last' = Call("deposit_funds", "ok", "none", FALSE, amount)
    /\ UNCHANGED <<state, selected_product, inventory, pendingPP, pendingFD>>

deposit_funds(amount) ==
    /\ UNCHANGED <<storeVars, raceVars, appVars>>
    /\ deposit_funds_body(amount)

AfterRefund_keeps_escrow(credit) == credit

\* self.credit_escrow = 0.0
AfterRefund(credit) == 0

request_refund_body ==
    /\ IF credit_escrow > 0
       THEN /\ credit_escrow' = AfterRefund(credit_escrow)
            /\ last' = Call("request_refund", "refunded", "none", FALSE, credit_escrow)
       ELSE /\ credit_escrow' = credit_escrow
            /\ last' = Call("request_refund", "no_funds", "none", FALSE, 0)
    /\ UNCHANGED <<state, selected_product, inventory, pendingPP, pendingFD>>

request_refund ==
    /\ UNCHANGED <<storeVars, raceVars, appVars>>
    /\ request_refund_body

select_product_body(product_index) ==
    /\ IF state \notin {"idle", "interacting_with_user"}
       THEN /\ last' = Call("select_product", "not_ready", "none", FALSE, 0)
            /\ UNCHANGED <<state, selected_product, pendingPP>>
       ELSE IF product_index \notin Products
       THEN /\ last' = Call("select_product", "invalid_index", "none", FALSE, 0)
            /\ UNCHANGED <<state, selected_product, pendingPP>>
       ELSE /\ selected_product' = product_index
            /\ IF TrackInventory(product_index) /\ inventory[product_index] <= 0
               THEN /\ last' = Call("select_product", "sold_out", "none", FALSE, 0)
                    /\ UNCHANGED <<state, pendingPP>>
               ELSE /\ pendingPP < MaxPending
                    /\ state' = Fire("start_interaction", state, credit_escrow)
                    /\ pendingPP' = pendingPP + 1
                    /\ last' = Call("select_product", "ok",
                                    IF state = "idle" THEN "start_interaction" ELSE "none",
                                    state = "idle", 0)
    /\ UNCHANGED <<credit_escrow, inventory, pendingFD>>

select_product(product_index) ==
    /\ UNCHANGED <<storeVars, raceVars, appVars>>
    /\ select_product_body(product_index)

Covers_any_credit(credit, price) == credit > 0 \/ credit >= price

\* if self.credit_escrow >= price
Covers(credit, price) == credit >= price

SelectedPrice == IF selected_product = NoProduct THEN 0 ELSE Price(selected_product)

Deduct_everything(credit, price) == 0

Deduct_nothing(credit, price) == credit

\* self.credit_escrow -= price
Deduct(credit, price) == credit - price

Required_is_price(credit, price) == price

\* required = price - self.credit_escrow
Required(credit, price) == price - credit

\* the Tk timer fires a pending _process_payment callback
_process_payment_body ==
    /\ pendingPP > 0
    /\ IF state # "interacting_with_user"
       THEN /\ pendingPP' = pendingPP - 1
            /\ last' = Call("_process_payment", "aborted", "none", FALSE, 0)
            /\ UNCHANGED <<state, credit_escrow, pendingFD>>
       ELSE IF Covers(credit_escrow, SelectedPrice)
       THEN /\ pendingFD < MaxPending
            /\ credit_escrow' = Deduct(credit_escrow, SelectedPrice)
            /\ state' = Fire("dispense_product", state, credit_escrow')
            /\ pendingPP' = pendingPP - 1
            /\ pendingFD' = pendingFD + 1
            /\ last' = Call("_process_payment", "dispensing", "dispense_product",
                            TRUE, SelectedPrice)
       ELSE /\ last' = Call("_process_payment", "insufficient", "none", FALSE,
                            Required(credit_escrow, SelectedPrice))
            /\ UNCHANGED <<state, credit_escrow, pendingPP, pendingFD>>
    /\ UNCHANGED <<selected_product, inventory>>

_process_payment ==
    /\ UNCHANGED <<storeVars, raceVars, appVars>>
    /\ _process_payment_body

\* the Tk timer fires a pending _finish_dispensing callback
_finish_dispensing_body ==
    /\ pendingFD > 0
    /\ pendingFD' = pendingFD - 1
    /\ IF state # "dispensing"
       THEN /\ last' = Call("_finish_dispensing", "aborted", "none", FALSE, 0)
            /\ UNCHANGED <<state, inventory>>
       ELSE /\ (selected_product # NoProduct /\ TrackInventory(selected_product))
                  => inventory[selected_product] > -MaxOversell
            /\ inventory' =
                 IF selected_product # NoProduct /\ TrackInventory(selected_product)
                 THEN [inventory EXCEPT ![selected_product] = @ - 1]
                 ELSE inventory
            /\ state' = Fire("complete_transaction", state, credit_escrow)
            /\ last' = Call("_finish_dispensing", "ok", "complete_transaction", TRUE, 0)
    /\ UNCHANGED <<credit_escrow, selected_product, pendingPP>>

_finish_dispensing ==
    /\ UNCHANGED <<storeVars, raceVars, appVars>>
    /\ _finish_dispensing_body

\* trigger error_occurred, source "*"
error_occurred_body ==
    /\ state' = Fire("error_occurred", state, credit_escrow)
    /\ last' = Call("error_occurred", "ok", "error_occurred", TRUE, 0)
    /\ UNCHANGED <<credit_escrow, selected_product, inventory, pendingPP, pendingFD>>

error_occurred ==
    /\ UNCHANGED <<storeVars, raceVars, appVars>>
    /\ error_occurred_body

\* trigger reset_state with its before-callback on_reset; MachineError elsewhere
reset_state_body ==
    /\ IF Accepted("reset_state", state, credit_escrow)
       THEN /\ selected_product' = NoProduct
            /\ state' = Fire("reset_state", state, credit_escrow)
            /\ last' = Call("reset_state", "ok", "reset_state", TRUE, 0)
       ELSE /\ last' = Call("reset_state", "MachineError", "reset_state", FALSE, 0)
            /\ UNCHANGED <<state, selected_product>>
    /\ UNCHANGED <<credit_escrow, inventory, pendingPP, pendingFD>>

reset_state ==
    /\ UNCHANGED <<storeVars, raceVars, appVars>>
    /\ reset_state_body

VMCNext ==
    \/ \E amount \in DepositAmounts : deposit_funds(amount)
    \/ request_refund
    \/ \E product_index \in Indexes : select_product(product_index)
    \/ _process_payment
    \/ _finish_dispensing
    \/ error_occurred
    \/ reset_state

(* The Tk event loop. The button commands of tkinter_ui.py and the callbacks
   armed with tk_root.after are all run by mainloop, on one thread; the
   handlers are plain functions without await, so each runs from its guard
   check to its return before mainloop takes the next event. *)

Handlers ==
    {"deposit_funds", "request_refund", "select_product", "_process_payment",
     "_finish_dispensing", "error_occurred", "reset_state"}

Dispatchable_while_running(running) == TRUE

\* mainloop takes an event only when no handler is running
Dispatchable(running) == running = <<>>

\* a handler is called and reads the machine state and the escrow for its guard
loop_enter(h) ==
    /\ h \in Handlers
    /\ Dispatchable(inflight)
    /\ Len(inflight) < MaxInflight
    /\ h = "_process_payment" => pendingPP > Len(SelectSeq(inflight, LAMBDA r : r.op = h))
    /\ h = "_finish_dispensing" => pendingFD > Len(SelectSeq(inflight, LAMBDA r : r.op = h))
    /\ inflight' = Append(inflight, [op |-> h, state |-> state,
                                     credit_escrow |-> credit_escrow])
    /\ UNCHANGED <<vmcVars, storeVars, raceVars, msgVars, cfgVars, ledgerVars>>

\* the running handler i applies its effect and returns
Returns(i, h) ==
    /\ i \in DOMAIN inflight
    /\ inflight[i].op = h
    /\ inflight' = SubSeq(inflight, 1, i - 1) \o SubSeq(inflight, i + 1, Len(inflight))
    /\ UNCHANGED <<storeVars, raceVars, msgVars, cfgVars, ledgerVars>>

loop_deposit_funds(i, amount) == Returns(i, "deposit_funds") /\ deposit_funds_body(amount)

loop_request_refund(i) == Returns(i, "request_refund") /\ request_refund_body

loop_select_product(i, product_index) ==
    Returns(i, "select_product") /\ select_product_body(product_index)

loop_process_payment(i) == Returns(i, "_process_payment") /\ _process_payment_body

loop_finish_dispensing(i) == Returns(i, "_finish_dispensing") /\ _finish_dispensing_body

loop_error_occurred(i) == Returns(i, "error_occurred") /\ error_occurred_body

loop_reset_state(i) == Returns(i, "reset_state") /\ reset_state_body

LoopNext ==
    \/ \E h \in Handlers : loop_enter(h)
    \/ \E i \in 1..MaxInflight, amount \in DepositAmounts : loop_deposit_funds(i, amount)
    \/ \E i \in 1..MaxInflight : loop_request_refund(i)
    \/ \E i \in 1..MaxInflight, product_index \in Indexes : loop_select_product(i, product_index)
    \/ \E i \in 1..MaxInflight : loop_process_payment(i)
    \/ \E i \in 1..MaxInflight : loop_finish_dispensing(i)
    \/ \E i \in 1..MaxInflight : loop_error_occurred(i)
    \/ \E i \in 1..MaxInflight : loop_reset_state(i)

---------------------------------------------------------------------------
(* controller/message_manager.py *)

Messages == {"a", "b"}
Durations == {1, 2}     \* duration_ms, in ticks of the device's clock

\* post: if len(self.queue) == 1, the queue was empty and the message is shown
StartsDisplay_always(q) == TRUE

StartsDisplay(q) == Len(q) = 1

\* _display_next on the queue q and the device's pending timers as the caller
\* left them: an empty queue clears the device; otherwise the head is shown and
\* device.schedule returns the id of a new timer (Tk numbers its timers, so no
\* id is used twice), which is kept in current_timer. The record added to
\* shown says which post is on the display and for how long it has been there.
_display_next(q, pending) ==
    IF q = <<>>
    THEN /\ display' = ""
         /\ timers' = pending
         /\ UNCHANGED <<current_timer, shown>>
    ELSE /\ display' = Head(q).message
         /\ shown' = Append(shown, [n |-> Head(q).n, message |-> Head(q).message,
                                    duration |-> Head(q).duration, age |-> 0])
         /\ current_timer' = Len(shown) + 1
         /\ timers' = pending \cup {[id |-> Len(shown) + 1, left |-> Head(q).duration]}

\* post(message, duration_ms); n is the number of the post
post(message, duration_ms) ==
    /\ Len(posted) < MaxPosts
    /\ posted' = Append(posted, [message |-> message, duration |-> duration_ms])
    /\ queue' = Append(queue, [message |-> message, duration |-> duration_ms,
                               n |-> Len(posted) + 1])
    /\ IF StartsDisplay(queue')
       THEN _display_next(queue', timers)
       ELSE UNCHANGED <<display, current_timer, timers, shown>>
    /\ UNCHANGED <<vmcVars, storeVars, raceVars, loopVars, cfgVars, ledgerVars>>

\* the device's clock advances by one tick while a timer is still running
tick ==
    /\ \E t \in timers : t.left > 0
    /\ timers' = {[id |-> t.id, left |-> IF t.left > 0 THEN t.left - 1 ELSE 0] : t \in timers}
    /\ shown' = IF shown # <<>> /\ display # ""
                THEN [shown EXCEPT ![Len(shown)].age = @ + 1]
                ELSE shown
    /\ UNCHANGED <<queue, current_timer, display, posted>>
    /\ UNCHANGED <<vmcVars, storeVars, raceVars, loopVars, cfgVars, ledgerVars>>

\* the device calls _on_timeout for a timer that has run out: popleft, then
\* _display_next; popleft on an empty deque raises IndexError, which ends the
\* callback
_on_timeout(t) ==
    /\ t \in timers
    /\ t.left = 0
    /\ IF queue = <<>>
       THEN /\ timers' = timers \ {t}
            /\ UNCHANGED <<queue, current_timer, display, shown>>
       ELSE /\ queue' = Tail(queue)
            /\ _display_next(Tail(queue), timers \ {t})
    /\ UNCHANGED posted
    /\ UNCHANGED <<vmcVars, storeVars, raceVars, loopVars, cfgVars, ledgerVars>>

\* clear_all: device.cancel of current_timer if it is set (cancelling a timer
\* that has fired or was cancelled before does nothing), queue.clear(),
\* device.clear(); current_timer keeps its value
clear_all ==
    /\ timers' = IF current_timer # NoTimer
                 THEN {t \in timers : t.id # current_timer}
                 ELSE timers
    /\ queue' = <<>>
    /\ display' = ""
    /\ UNCHANGED <<current_timer, posted, shown>>
    /\ UNCHANGED <<vmcVars, storeVars, raceVars, loopVars, cfgVars, ledgerVars>>

MessagesNext ==
    \/ \E message \in Messages, duration_ms \in Durations : post(message, duration_ms)
    \/ tick
    \/ \E t \in timers : _on_timeout(t)
    \/ clear_all

---------------------------------------------------------------------------
(* controller/event_store.py *)

EmptyFile == [kind |-> "empty", fsm_state |-> "idle", credit_escrow |-> 0,
              selected_product |-> NoProduct]

\* SnapshotEvent(state=self.__dict__), serialised: of the controller's fields the
\* recovery reads the FSM state and credit_escrow
SnapshotOf(st, credit, sel) ==
    [kind |-> "full", fsm_state |-> st, credit_escrow |-> credit, selected_product |-> sel]

\* TransactionEvent(...): sku and amount are those of the selected product
\* (one payment channel)
TransactionEvent(sku, amount, before, after) ==
    [form |-> "event", type |-> "transaction", sku |-> sku, amount |-> amount,
     fsm_state_before |-> before, fsm_state_after |-> after]

\* A line of the log file is told apart by what replay_events does with it:
\*   form "event"       a JSON object that its event class accepts
\*   form "not_json"    json.loads raises JSONDecodeError (torn or garbled line)
\*   form "not_object"  valid JSON that is no object (42, [], null): no .get
\*   form "bad_fields"  a JSON object of the given type that parse_obj rejects
OtherEvent ==
    [form |-> "event", type |-> "snapshot", sku |-> NoProduct, amount |-> 0,
     fsm_state_before |-> "idle", fsm_state_after |-> "idle"]
NotJsonLine ==
    [form |-> "not_json", type |-> "none", sku |-> NoProduct, amount |-> 0,
     fsm_state_before |-> "idle", fsm_state_after |-> "idle"]
NotObjectLine ==
    [form |-> "not_object", type |-> "none", sku |-> NoProduct, amount |-> 0,
     fsm_state_before |-> "idle", fsm_state_after |-> "idle"]
BadFieldsLine ==
    [form |-> "bad_fields", type |-> "transaction", sku |-> NoProduct, amount |-> 0,
     fsm_state_before |-> "idle", fsm_state_after |-> "idle"]

LogLines ==
    {TransactionEvent(1, Price(1), "dispensing", "idle"),
     TransactionEvent(2, Price(2), "dispensing", "interacting_with_user"),
     OtherEvent, NotJsonLine, NotObjectLine, BadFieldsLine}

BoundedLogs == UNION {[1..n -> LogLines] : n \in 0..MaxLog}

EventTypes == {"transaction", "snapshot"}

\* ---- write_snapshot(state: dict) and load_latest_snapshot as a conversion.
\* A value of the dict is told apart by what model_dump_json does with it.
DictValues ==
    {[kind |-> "number", val |-> "75"],
     [kind |-> "string", val |-> "idle"],
     [kind |-> "list", val |-> "products"],
     [kind |-> "tuple", val |-> "products"],     \* serialised as a JSON array
     [kind |-> "object", val |-> "Machine"]}     \* no JSON form

\* keys of the dict handed to write_snapshot (attribute names, all strings)
DictKeys == {"credit_escrow", "machine"}

StateDicts == UNION {[K -> DictValues] : K \in SUBSET DictKeys}

\* self.__dict__ of the controller, the argument on_complete_transaction passes
VMC_dict ==
    [k \in DictKeys |->
        IF k = "credit_escrow" THEN [kind |-> "number", val |-> "75"]
        ELSE [kind |-> "object", val |-> "Machine"]]

\* model_dump_json raises PydanticSerializationError for a value of unknown type
Serialisable(s) == \A k \in DOMAIN s : s[k].kind # "object"

\* model_dump_json followed by parse_raw: what the reader gets back for a value
JsonRoundTrip(v) ==
    IF v.kind = "tuple" THEN [kind |-> "list", val |-> v.val] ELSE v

SnapshotEvent(s) ==
    [kind |-> "full", state |-> [k \in DOMAIN s |-> JsonRoundTrip(s[k])]]

NotWritten == [ran |-> FALSE, raised |-> FALSE, arg |-> <<>>]

NotReplayed == [ran |-> FALSE, type |-> "none", raised |-> FALSE, events |-> <<>>]

InitStore ==
    /\ log = <<>>
    /\ snapshot = EmptyFile
    /\ events_since_snapshot = 0
    /\ pc = "ready"
    /\ pending_dest = "idle"
    /\ replayed = NotReplayed
    /\ recoveries = <<>>
    /\ written = NotWritten

append_event_overwrites(lg, evt) == <<evt>>

\* append_event: log_path.open('a') and one line written; closed on return
append_event(lg, evt) == Append(lg, evt)

CheckpointDue_exceeds(n) == n > SnapshotEvery

\* if self._events_since_snapshot >= self.snapshot_every
CheckpointDue(n) == n >= SnapshotEvery

\* load_latest_snapshot: None for an empty file
load_latest_snapshot(file) ==
    IF file.kind = "empty" THEN [present |-> FALSE, snap |-> EmptyFile]
    ELSE [present |-> TRUE, snap |-> file]

\* replay_events(event_type): line by line; only json.JSONDecodeError is caught,
\* so payload.get on a non-object and parse_obj on bad fields end the call with
\* an exception and no list is returned
RECURSIVE replay_events(_, _)
replay_events(lg, type) ==
    IF lg = <<>> THEN [raised |-> FALSE, events |-> <<>>]
    ELSE LET line == Head(lg)
             rest == replay_events(Tail(lg), type)
         IN IF line.form = "not_json" THEN rest
            ELSE IF line.form = "not_object" THEN [raised |-> TRUE, events |-> <<>>]
            ELSE IF line.type # type THEN rest
            ELSE IF line.form = "bad_fields" THEN [raised |-> TRUE, events |-> <<>>]
            ELSE IF rest.raised THEN rest
            ELSE [raised |-> FALSE, events |-> <<line>> \o rest.events]

\* a call of replay_events on the log file as it is
replay(event_type) ==
    /\ UNCHANGED <<vmcVars, raceVars, appVars>>
    /\ replayed' = [ran |-> TRUE, type |-> event_type,
                    raised |-> replay_events(log, event_type).raised,
                    events |-> replay_events(log, event_type).events]
    /\ UNCHANGED <<log, snapshot, events_since_snapshot, pc, pending_dest, recoveries,
                   written>>

ReplayNext == \E event_type \in EventTypes : replay(event_type)

\* write_snapshot(state) as one call: SnapshotEvent(state=state) accepts any
\* dict; open('w') truncates the file; model_dump_json either returns the text
\* that is written or raises, and then the log and the counter are not reset
write_snapshot(s) ==
    /\ pc = "ready"
    /\ written' = [ran |-> TRUE, raised |-> ~Serialisable(s), arg |-> s]
    /\ IF Serialisable(s)
       THEN /\ snapshot' = SnapshotEvent(s)
            /\ log' = <<>>
            /\ events_since_snapshot' = 0
       ELSE /\ snapshot' = EmptyFile
            /\ UNCHANGED <<log, events_since_snapshot>>
    /\ UNCHANGED <<vmcVars, raceVars, appVars>>
    /\ UNCHANGED <<pc, pending_dest, replayed, recoveries>>

SnapshotNext == \E s \in StateDicts : write_snapshot(s)

---------------------------------------------------------------------------
(* config/state_model.py *)

\* MachineState(**snapshot.state) / MachineState(fsm_state="startup")
MachineState(fsm, credit) ==
    [fsm_state |-> fsm, credit_escrow |-> credit, current_sku |-> NoProduct,
     vend_count |-> [p \in Products |-> 0], revenue |-> 0]

record_transaction(ms, sku, amount) ==
    [ms EXCEPT !.vend_count[sku] = @ + 1,
               !.revenue = @ + amount,
               !.credit_escrow = 0,
               !.current_sku = NoProduct]

RECURSIVE ReplayInto(_, _)
ReplayInto(ms, events) ==
    IF events = <<>> THEN ms
    ELSE ReplayInto(record_transaction(ms, Head(events).sku, Head(events).amount),
                    Tail(events))

\* VMC.__init__ of vmc_core.py: load the snapshot, then replay the log
Recover(file, lg) ==
    LET loaded == load_latest_snapshot(file)
        start == IF loaded.present
                 THEN MachineState(loaded.snap.fsm_state, loaded.snap.credit_escrow)
                 ELSE MachineState("startup", 0)
    IN ReplayInto(start, replay_events(lg, "transaction").events)

\* MachineState.fsm_state is a Literal of the four FSM states: the constructor
\* raises ValidationError for any other value
ValidFsmState(fsm) == fsm \in {"idle", "interacting_with_user", "dispensing", "error"}

\* readings of datetime.now / datetime.utcnow the process can get
Clock == 1..MaxClock

\* MachineState.last_updated: default_factory datetime.now at construction (the
\* snapshot of the controller's fields carries no last_updated); record_transaction
\* overwrites it with the timestamp stored in the replayed event
last_updated(events, now) ==
    IF events = <<>> THEN [source |-> "clock", at |-> now]
    ELSE [source |-> "event", at |-> Len(events)]

RecoveryRaised(error) ==
    [raised |-> error, state |-> MachineState("idle", 0),
     last_updated |-> [source |-> "none", at |-> 0]]

\* VMC.__init__ of vmc_core.py, with its exceptions: the MachineState is
\* constructed first (from the snapshot, or with fsm_state="startup" when
\* load_latest_snapshot returns None), then the transactions are replayed
VMC_init(file, lg, now) ==
    LET loaded == load_latest_snapshot(file)
        fsm    == IF loaded.present THEN loaded.snap.fsm_state ELSE "startup"
        credit == IF loaded.present THEN loaded.snap.credit_escrow ELSE 0
        rep    == replay_events(lg, "transaction")
    IN IF ~ValidFsmState(fsm) THEN RecoveryRaised("ValidationError")
       ELSE IF rep.raised THEN RecoveryRaised("replay_events")
       ELSE [raised |-> "no",
             state |-> ReplayInto(MachineState(fsm, credit), rep.events),
             last_updated |-> last_updated(rep.events, now)]

\* a process start: VMC.__init__ reads the two files and writes neither
recover(now) ==
    /\ pc = "ready"
    /\ Len(recoveries) < MaxRecoveries
    /\ recoveries' = Append(recoveries, VMC_init(snapshot, log, now))
    /\ UNCHANGED <<vmcVars, raceVars, appVars>>
    /\ UNCHANGED <<log, snapshot, events_since_snapshot, pc, pending_dest, replayed,
                   written>>

RecoverNext == \E now \in Clock : recover(now)

---------------------------------------------------------------------------
(* controller/vmc_core.py *)

core_deposit_funds_body(amount) ==
    /\ pc = "ready"
    /\ credit_escrow + amount <= MaxEscrow
    /\ credit_escrow + amount >= -MaxDebt
    /\ credit_escrow' = credit_escrow + amount
    /\ last' = Call("deposit_funds", "ok", "none", FALSE, amount)
    /\ UNCHANGED <<state, selected_product, inventory, pendingPP, pendingFD>>
    /\ UNCHANGED storeVars

core_deposit_funds(amount) ==
    /\ UNCHANGED <<raceVars, appVars>>
    /\ core_deposit_funds_body(amount)

core_request_refund_body ==
    /\ pc = "ready"
    /\ IF credit_escrow <= 0
       THEN /\ credit_escrow' = credit_escrow
            /\ last' = Call("request_refund", "no_funds", "none", FALSE, 0)
       ELSE /\ credit_escrow' = AfterRefund(credit_escrow)
            /\ last' = Call("request_refund", "refunded", "none", FALSE, credit_escrow)
    /\ UNCHANGED <<state, selected_product, inventory, pendingPP, pendingFD>>
    /\ UNCHANGED storeVars

core_request_refund ==
    /\ UNCHANGED <<raceVars, appVars>>
    /\ core_request_refund_body

\* start_interaction() is ignored outside idle (ignore_invalid_triggers=True)
core_select_product_body(product_index) ==
    /\ pc = "ready"
    /\ IF product_index \notin Products
       THEN /\ last' = Call("select_product", "invalid_index", "none", FALSE, 0)
            /\ UNCHANGED <<state, selected_product>>
       ELSE /\ selected_product' = product_index
            /\ state' = Fire("start_interaction", state, credit_escrow)
            /\ last' = Call("select_product", "ok", "start_interaction",
                            Accepted("start_interaction", state, credit_escrow), 0)
    /\ UNCHANGED <<credit_escrow, inventory, pendingPP, pendingFD>>
    /\ UNCHANGED storeVars

core_select_product(product_index) ==
    /\ UNCHANGED <<raceVars, appVars>>
    /\ core_select_product_body(product_index)

\* selected_product None: AttributeError before anything is changed
core_process_payment_body ==
    /\ pc = "ready"
    /\ IF selected_product = NoProduct
       THEN /\ last' = Call("process_payment", "AttributeError", "none", FALSE, 0)
            /\ UNCHANGED <<state, credit_escrow>>
       ELSE IF Covers(credit_escrow, SelectedPrice)
       THEN /\ credit_escrow' = Deduct(credit_escrow, SelectedPrice)
            /\ state' = Fire("dispense_product", state, credit_escrow')
            /\ last' = Call("process_payment", "dispensed", "dispense_product",
                            Accepted("dispense_product", state, credit_escrow'),
                            SelectedPrice)
       ELSE /\ last' = Call("process_payment", "insufficient", "none", FALSE,
                            Required(credit_escrow, SelectedPrice))
            /\ UNCHANGED <<state, credit_escrow>>
    /\ UNCHANGED <<selected_product, inventory, pendingPP, pendingFD>>
    /\ UNCHANGED storeVars

core_process_payment ==
    /\ UNCHANGED <<raceVars, appVars>>
    /\ core_process_payment_body

\* trigger complete_transaction with its before-callback on_complete_transaction:
\* append_event, then checkpoint; the state changes after the callback returns
core_complete_transaction_body ==
    /\ pc = "ready"
    /\ IF ~Accepted("complete_transaction", state, credit_escrow)
       THEN /\ last' = Call("complete_transaction", "ignored", "complete_transaction", FALSE, 0)
            /\ UNCHANGED <<state, log, events_since_snapshot, pc, pending_dest>>
       ELSE \/ \* append_event raises (I/O error): the transition is aborted
               /\ last' = Call("complete_transaction", "OSError", "complete_transaction", FALSE, 0)
               /\ UNCHANGED <<state, log, events_since_snapshot, pc, pending_dest>>
            \/ /\ log' = append_event(log,
                               TransactionEvent(selected_product, SelectedPrice, state,
                                    Fire("complete_transaction", state, credit_escrow)))
               /\ events_since_snapshot' = events_since_snapshot + 1
               /\ last' = Call("complete_transaction", "ok", "complete_transaction", TRUE, 0)
               /\ IF CheckpointDue(events_since_snapshot')
                  THEN /\ pc' = "ws_open"
                       /\ pending_dest' = Fire("complete_transaction", state, credit_escrow)
                       /\ state' = state
                  ELSE /\ state' = Fire("complete_transaction", state, credit_escrow)
                       /\ UNCHANGED <<pc, pending_dest>>
    /\ UNCHANGED <<credit_escrow, selected_product, inventory, pendingPP, pendingFD, snapshot,
                   replayed, recoveries, written>>

core_complete_transaction ==
    /\ UNCHANGED <<raceVars, appVars>>
    /\ core_complete_transaction_body

\* write_snapshot: open(snapshot_path, 'w') truncates the file
ws_open_body ==
    /\ pc = "ws_open"
    /\ snapshot' = EmptyFile
    /\ pc' = "ws_write"
    /\ UNCHANGED <<log, events_since_snapshot, pending_dest, replayed, recoveries, written>>
    /\ UNCHANGED vmcVars

ws_open ==
    /\ UNCHANGED <<raceVars, appVars>>
    /\ ws_open_body

\* write_snapshot: f.write(snapshot.model_dump_json()) and close
ws_write_body ==
    /\ pc = "ws_write"
    /\ snapshot' = SnapshotOf(state, credit_escrow, selected_product)
    /\ pc' = "ws_clear"
    /\ UNCHANGED <<log, events_since_snapshot, pending_dest, replayed, recoveries, written>>
    /\ UNCHANGED vmcVars

ws_write ==
    /\ UNCHANGED <<raceVars, appVars>>
    /\ ws_write_body

\* write_snapshot: clear the log and the counter; the callback returns and the
\* Machine sets the new state
ws_clear_body ==
    /\ pc = "ws_clear"
    /\ log' = <<>>
    /\ events_since_snapshot' = 0
    /\ state' = pending_dest
    /\ pc' = "ready"
    /\ UNCHANGED <<snapshot, pending_dest, replayed, recoveries, written>>
    /\ UNCHANGED <<credit_escrow, selected_product, inventory, pendingPP, pendingFD, last>>

ws_clear ==
    /\ UNCHANGED <<raceVars, appVars>>
    /\ ws_clear_body

core_error_occurred_body ==
    /\ pc = "ready"
    /\ state' = Fire("error_occurred", state, credit_escrow)
    /\ last' = Call("error_occurred", "ok", "error_occurred", TRUE, 0)
    /\ UNCHANGED <<credit_escrow, selected_product, inventory, pendingPP, pendingFD>>
    /\ UNCHANGED storeVars

core_error_occurred ==
    /\ UNCHANGED <<raceVars, appVars>>
    /\ core_error_occurred_body

\* on_reset clears the selection and the escrow
core_reset_state_body ==
    /\ pc = "ready"
    /\ IF Accepted("reset_state", state, credit_escrow)
       THEN /\ selected_product' = NoProduct
            /\ credit_escrow' = 0
            /\ state' = Fire("reset_state", state, credit_escrow)
            /\ last' = Call("reset_state", "ok", "reset_state", TRUE, 0)
       ELSE /\ last' = Call("reset_state", "ignored", "reset_state", FALSE, 0)
            /\ UNCHANGED <<state, selected_product, credit_escrow>>
    /\ UNCHANGED <<inventory, pendingPP, pendingFD>>
    /\ UNCHANGED storeVars

core_reset_state ==
    /\ UNCHANGED <<raceVars, appVars>>
    /\ core_reset_state_body

CoreNext ==
    \/ \E amount \in DepositAmounts : core_deposit_funds(amount)
    \/ core_request_refund
    \/ \E product_index \in Indexes : core_select_product(product_index)
    \/ core_process_payment
    \/ core_complete_transaction
    \/ ws_open
    \/ ws_write
    \/ ws_clear
    \/ core_error_occurred
    \/ core_reset_state

\* the process ends (at any point, also inside write_snapshot) and starts again:
\* the two files are kept as they are; EventStore.__init__ sets
\* _events_since_snapshot = 0 whatever the log file holds; VMC.__init__ runs the
\* recovery and sets the fields and the Machine to their initial values, or
\* raises and leaves the process without a controller
restart(now) ==
    /\ Len(recoveries) < MaxRestarts
    /\ events_since_snapshot' = 0
    /\ recoveries' = Append(recoveries, VMC_init(snapshot, log, now))
    /\ pc' = IF VMC_init(snapshot, log, now).raised = "no" THEN "ready" ELSE "no_controller"
    /\ pending_dest' = "idle"
    /\ state' = "idle"
    /\ credit_escrow' = 0
    /\ selected_product' = NoProduct
    /\ pendingPP' = 0
    /\ pendingFD' = 0
    /\ last' = Call("init", IF VMC_init(snapshot, log, now).raised = "no" THEN "ok" ELSE "raised",
                    "none", FALSE, 0)
    /\ UNCHANGED <<inventory, log, snapshot, replayed, written>>
    /\ UNCHANGED <<raceVars, appVars>>

\* a purchase with vmc_core.py, and restarts of the process
RestartNext ==
    \/ core_deposit_funds(100)
    \/ core_select_product(1)
    \/ core_process_payment
    \/ core_complete_transaction
    \/ ws_open
    \/ ws_write
    \/ ws_clear
    \/ \E now \in Clock : restart(now)

(* The money the customer has put in and has not got back as a refund or as a
   product: every call of vmc_core.py is booked by what it took in or gave out *)

\* what a call took from the customer (deposit) or gave back (refund, product)
Entry(call) ==
    CASE call.op = "deposit_funds" -> call.amount
      [] call.op = "request_refund" /\ call.result = "refunded" -> 0 - call.amount
      [] call.op = "process_payment" /\ call.result = "dispensed" -> 0 - call.amount
      [] OTHER -> 0

\* the books are followed up to the first state in which they do not balance
Booked(entry) ==
    /\ owed = credit_escrow
    /\ owed' = owed + entry
    /\ UNCHANGED <<raceVars, loopVars, msgVars, cfgVars>>

ledger_deposit_funds(amount) == core_deposit_funds_body(amount) /\ Booked(Entry(last'))

ledger_request_refund == core_request_refund_body /\ Booked(Entry(last'))

ledger_select_product(product_index) ==
    core_select_product_body(product_index) /\ Booked(0)

ledger_process_payment == core_process_payment_body /\ Booked(Entry(last'))

ledger_complete_transaction == core_complete_transaction_body /\ Booked(0)

ledger_ws_open == ws_open_body /\ Booked(0)

ledger_ws_write == ws_write_body /\ Booked(0)

ledger_ws_clear == ws_clear_body /\ Booked(0)

ledger_error_occurred == core_error_occurred_body /\ Booked(0)

ledger_reset_state == core_reset_state_body /\ Booked(0)

LedgerNext ==
    \/ \E amount \in DepositAmounts : ledger_deposit_funds(amount)
    \/ ledger_request_refund
    \/ \E product_index \in Indexes : ledger_select_product(product_index)
    \/ ledger_process_payment
    \/ ledger_complete_transaction
    \/ ledger_ws_open
    \/ ledger_ws_write
    \/ ledger_ws_clear
    \/ ledger_error_occurred
    \/ ledger_reset_state

---------------------------------------------------------------------------
(* services/virtual_payment_fsm.py                                         *)
(*                                                                         *)
(* One asyncio task per gateway.  A task step runs from one await to the   *)
(* next.  asyncio.wait(FIRST_COMPLETED) resumes start_transaction one loop *)
(* iteration after the first task finished; the tasks whose sleep ends in  *)
(* between (grace) poll once more before it resumes.  `done` is a set, so  *)
(* the order in which start_transaction visits it is not fixed.            *)

AllGateways == {"A", "B", "C"}
PollStatuses == {"success", "pending", "timeout"}
NoGateway == "None"

InitRace ==
    /\ gateways \in SUBSET AllGateways
    /\ main = "idle"
    /\ tpc = [g \in AllGateways |-> "none"]
    /\ attempts = [g \in AllGateways |-> 0]
    /\ tresult = [g \in AllGateways |-> NoGateway]
    /\ grace = {}
    /\ successful_gateway = NoGateway
    /\ active = FALSE
    /\ status = "idle"
    /\ virtual_payment_tasks = {}
    /\ success_order = <<>>
    /\ ret = NoGateway
    /\ cpc = "idle"
    /\ cancels = 0

Done(tp) == {g \in gateways : tp[g] = "done"}
Running(tp) == {g \in gateways : tp[g] \in {"new", "sleeping", "cancelling"}}
Cancelled(tp) == {g \in gateways : tp[g] = "cancelled"}

\* start_transaction up to its await; asyncio.wait raises ValueError on no tasks
start_transaction ==
    /\ UNCHANGED <<vmcVars, storeVars, appVars, cpc, cancels>>
    /\ main \in {"idle", "returned", "raised"}
    /\ Running(tpc) = {}
    /\ active' = TRUE
    /\ status' = "processing"
    /\ tpc' = [g \in AllGateways |-> IF g \in gateways THEN "new" ELSE "none"]
    /\ attempts' = [g \in AllGateways |-> 0]
    /\ tresult' = [g \in AllGateways |-> NoGateway]
    /\ virtual_payment_tasks' = virtual_payment_tasks \cup gateways
    /\ grace' = {}
    /\ success_order' = <<>>
    /\ ret' = NoGateway
    /\ main' = IF gateways = {} THEN "raised" ELSE "waiting"
    /\ UNCHANGED <<gateways, successful_gateway>>

\* services/fsm_integration.py: FSMIntegration builds no VirtualPaymentFSM for
\* an empty payment_gateways and start_virtual_payment then returns None;
\* otherwise it awaits start_transaction
start_virtual_payment ==
    IF gateways = {}
    THEN /\ UNCHANGED <<vmcVars, storeVars, appVars, cpc, cancels>>
         /\ main \in {"idle", "returned", "raised"}
         /\ main' = "returned"
         /\ ret' = NoGateway
         /\ UNCHANGED <<gateways, tpc, attempts, tresult, grace, successful_gateway,
                        active, status, virtual_payment_tasks, success_order>>
    ELSE start_transaction

\* _poll_gateway up to its first await asyncio.sleep
poll_start(g) ==
    /\ UNCHANGED <<vmcVars, storeVars, appVars, cpc, cancels>>
    /\ tpc[g] = "new"
    /\ tpc' = [tpc EXCEPT ![g] = "sleeping"]
    /\ UNCHANGED <<gateways, main, attempts, tresult, grace, successful_gateway, active,
                   status, virtual_payment_tasks, success_order, ret>>

Exhausted_one_late(n) == n >= PollLimit + 1

\* for i in range(10): the loop ends after the last iteration
Exhausted(n) == n >= PollLimit

\* one iteration of the polling loop: the sleep ends, the provider answers st
poll(g, st) ==
    /\ UNCHANGED <<vmcVars, storeVars, appVars, cpc, cancels>>
    /\ tpc[g] = "sleeping"
    /\ \A h \in gateways : tpc[h] # "new"
    /\ Done(tpc) = {} \/ g \in grace
    /\ attempts' = [attempts EXCEPT ![g] = @ + 1]
    /\ LET finished == st \in {"success", "timeout"} \/ Exhausted(attempts'[g])
       IN /\ tpc' = [tpc EXCEPT ![g] = IF finished THEN "done" ELSE "sleeping"]
          /\ tresult' = [tresult EXCEPT ![g] = IF st = "success" THEN g ELSE NoGateway]
          /\ success_order' = IF st = "success" THEN Append(success_order, g)
                              ELSE success_order
          /\ grace' = IF Done(tpc) = {} /\ finished
                      THEN {h \in gateways \ {g} : tpc[h] = "sleeping"}
                      ELSE grace \ {g}
    /\ UNCHANGED <<gateways, main, successful_gateway, active, status,
                   virtual_payment_tasks, ret>>

\* start_transaction from the return of asyncio.wait to its return
wait_resume ==
    /\ UNCHANGED <<vmcVars, storeVars, appVars, cpc, cancels>>
    /\ main = "waiting"
    /\ Done(tpc) # {}
    /\ Cancelled(tpc) = {}
    /\ \E winner \in {tresult[g] : g \in Done(tpc)} :
          /\ (winner = NoGateway) => \A g \in Done(tpc) : tresult[g] = NoGateway
          /\ successful_gateway' = winner
          /\ status' = IF winner # NoGateway THEN "success" ELSE "failure"
          /\ ret' = winner
    /\ tpc' = [g \in AllGateways |->
                 IF g \in gateways /\ tpc[g] = "sleeping" THEN "cancelling" ELSE tpc[g]]
    /\ active' = FALSE
    /\ virtual_payment_tasks' = {}
    /\ grace' = {}
    /\ main' = "returned"
    /\ UNCHANGED <<gateways, attempts, tresult, success_order>>

\* the CancelledError handler of _poll_gateway runs and re-raises
poll_cancelled(g) ==
    /\ UNCHANGED <<vmcVars, storeVars, appVars, cpc, cancels>>
    /\ tpc[g] = "cancelling"
    /\ tpc' = [tpc EXCEPT ![g] = "cancelled"]
    /\ UNCHANGED <<gateways, main, attempts, tresult, grace, successful_gateway, active,
                   status, virtual_payment_tasks, success_order, ret>>

\* start_transaction resumes from asyncio.wait with cancelled tasks in `done`
\* (all tasks have finished by then): task.result() of a cancelled task raises
\* CancelledError, unless the loop meets a successful task first and breaks
wait_cancelled ==
    /\ UNCHANGED <<vmcVars, storeVars, appVars, cpc, cancels>>
    /\ main = "waiting"
    /\ cpc = "idle"
    /\ Cancelled(tpc) # {}
    /\ Running(tpc) = {}
    /\ \/ /\ main' = "raised"
          /\ successful_gateway' = NoGateway
          /\ UNCHANGED <<active, status, virtual_payment_tasks, ret>>
       \/ \E winner \in {tresult[g] : g \in Done(tpc)} \ {NoGateway} :
             /\ successful_gateway' = winner
             /\ status' = "success"
             /\ ret' = winner
             /\ active' = FALSE
             /\ virtual_payment_tasks' = {}
             /\ main' = "returned"
    /\ UNCHANGED <<gateways, tpc, attempts, tresult, grace, success_order>>

\* cancel_transaction up to its await asyncio.sleep(0), or to its return when
\* there is no task to cancel; task.cancel() only requests the cancellation
cancel_transaction ==
    /\ UNCHANGED <<vmcVars, storeVars, appVars>>
    /\ cpc = "idle"
    /\ cancels < MaxCancels
    /\ cancels' = cancels + 1
    /\ IF virtual_payment_tasks # {}
       THEN /\ tpc' = [g \in AllGateways |->
                        IF g \in virtual_payment_tasks /\ tpc[g] \in {"new", "sleeping"}
                        THEN "cancelling" ELSE tpc[g]]
            /\ virtual_payment_tasks' = {}
            /\ status' = "cancelled"
            /\ grace' = {}
            /\ cpc' = "yield"
       ELSE UNCHANGED <<tpc, virtual_payment_tasks, status, grace, cpc>>
    /\ UNCHANGED <<gateways, main, attempts, tresult, successful_gateway, active,
                   success_order, ret>>

\* cancel_transaction resumes from sleep(0) and returns: the event loop runs its
\* ready queue in order, so the cancelled tasks have taken their CancelledError
cancel_return ==
    /\ UNCHANGED <<vmcVars, storeVars, appVars>>
    /\ cpc = "yield"
    /\ \A g \in gateways : tpc[g] # "cancelling"
    /\ cpc' = "idle"
    /\ UNCHANGED <<gateways, main, tpc, attempts, tresult, grace, successful_gateway,
                   active, status, virtual_payment_tasks, success_order, ret, cancels>>

\* calls of the callback with payment_success since the race was started: one
\* by every polling task that saw "success" (_poll_gateway), one more by
\* start_transaction when it ends with a successful gateway
payment_success_notified ==
    Len(success_order) + (IF main = "returned" /\ ret # NoGateway THEN 1 ELSE 0)

RaceNext ==
    \/ start_transaction
    \/ start_virtual_payment
    \/ \E g \in AllGateways : poll_start(g)
    \/ \E g \in AllGateways, st \in PollStatuses : poll(g, st)
    \/ wait_resume
    \/ \E g \in AllGateways : poll_cancelled(g)

\* the race together with calls of cancel_transaction
CancelNext ==
    \/ RaceNext
    \/ wait_cancelled
    \/ cancel_transaction
    \/ cancel_return

---------------------------------------------------------------------------
(* Specifications *)

Init == InitVMCFields /\ InitConfig /\ InitStore /\ InitRace /\ gateways = AllGateways

SpecVMC == Init /\ [][VMCNext]_vars

\* the same controller with the guard check and the effect of a handler as two steps
SpecLoop == Init /\ [][LoopNext]_vars

SpecCore == Init /\ [][CoreNext]_vars

\* the MessageManager with its display device
SpecMessages == Init /\ [][MessagesNext]_vars

\* vmc_core.py over process restarts
SpecRestart == Init /\ [][RestartNext]_vars

\* vmc_core.py with the customer's money booked next to it
SpecLedger == Init /\ [][LedgerNext]_vars

InitR == InitVMCFields /\ InitConfig /\ InitStore /\ InitRace

SpecRace == InitR /\ [][RaceNext]_vars

\* races of at most two gateways with cancel_transaction called at any time
InitC == InitR /\ gateways \subseteq {"A", "B"}

SpecCancel == InitC /\ [][CancelNext]_vars

\* ---- config_test.py: migrate_config and save_config

Versions == {"2025.04.14.01", DefaultVersion, "2025.04.14.03"}

\* configurations that validate: any version string, any firmware_version
Configs == [config_version : Versions, firmware_version : {"1.0.0", "1.1.0", "2.0.0"}]

PartialFile == [config_version |-> "", firmware_version |-> ""]

\* what config.json can hold: a configuration, or the stump of a failed write
FileContents == Configs \cup {PartialFile}

Migrated_keeps_version(cfg) == cfg

\* config.config_version = default_config.config_version
Migrated(cfg) == [cfg EXCEPT !.config_version = DefaultVersion]

\* save_config: open(filepath, "w") and json.dump; any exception is logged and
\* swallowed, leaving the file as it was (open failed) or cut short
save_config(cfg, outcome) ==
    /\ saves' = saves + 1
    /\ config_file' = CASE outcome = "ok" -> cfg
                        [] outcome = "open_failed" -> config_file
                        [] OTHER -> PartialFile

SaveOutcomes == {"ok", "open_failed", "write_failed"}

\* migrate_config(config, filepath): the object itself is updated and returned
migrate_config(outcome) ==
    /\ migrations < MaxMigrations
    /\ migrations' = migrations + 1
    /\ IF config.config_version # ConfigModel.config_version
       THEN /\ config' = Migrated(config)
            /\ save_config(config', outcome)
       ELSE /\ outcome = "ok"
            /\ UNCHANGED <<config, config_file, saves>>
    /\ UNCHANGED <<vmcVars, storeVars, raceVars, loopVars, msgVars, ledgerVars>>

MigrateNext == \E outcome \in SaveOutcomes : migrate_config(outcome)

InitMigrate ==
    /\ InitVMCFields /\ InitStore /\ InitRace /\ gateways = AllGateways
    /\ config \in Configs
    /\ config_file \in FileContents
    /\ migrations = 0
    /\ saves = 0

SpecMigrate == InitMigrate /\ [][MigrateNext]_vars

\* the Tk controller next to a payment race of one configured gateway; the
\* race reports through vmc_callback, which handles no event (its body is pass),
\* and no handler of the controller starts or awaits the race
InitPay == InitR /\ gateways = {"A"}

\* the handlers of a purchase, and the steps of a race that nobody cancels
PayNext ==
    \/ \E amount \in DepositAmounts : deposit_funds(amount)
    \/ \E product_index \in Indexes : select_product(product_index)
    \/ _process_payment
    \/ _finish_dispensing
    \/ start_transaction
    \/ start_virtual_payment
    \/ \E g \in AllGateways : poll_start(g)
    \/ \E g \in AllGateways, st \in PollStatuses : poll(g, st)
    \/ wait_resume

SpecPay == InitPay /\ [][PayNext]_vars

\* replay_events as a function of the log file: any file of at most MaxLog lines
InitReplay ==
    /\ InitVMCFields /\ InitConfig /\ InitRace /\ gateways = AllGateways
    /\ log \in BoundedLogs
    /\ snapshot = EmptyFile
    /\ events_since_snapshot = 0
    /\ pc = "ready"
    /\ pending_dest = "idle"
    /\ replayed = NotReplayed
    /\ recoveries = <<>>
    /\ written = NotWritten

SpecReplay == InitReplay /\ [][ReplayNext]_vars

\* the files a process start can find: no snapshot, or a snapshot of a
\* controller at rest
SnapshotFiles ==
    {EmptyFile, SnapshotOf("idle", 0, NoProduct),
     SnapshotOf("interacting_with_user", 75, NoProduct)}

InitRecover ==
    /\ InitVMCFields /\ InitConfig /\ InitRace /\ gateways = AllGateways
    /\ log \in BoundedLogs
    /\ snapshot \in SnapshotFiles
    /\ events_since_snapshot = 0
    /\ pc = "ready"
    /\ pending_dest = "idle"
    /\ replayed = NotReplayed
    /\ recoveries = <<>>
    /\ written = NotWritten

SpecRecover == InitRecover /\ [][RecoverNext]_vars

InitSnapshot == InitReplay

SpecSnapshot == InitSnapshot /\ [][SnapshotNext]_vars

---------------------------------------------------------------------------
(* Properties *)

\* C1: after any sequence of deposits, payments and refunds, with any amount a
\* caller can pass, the escrow balance is never negative.
C1_EscrowNeverNegative == credit_escrow >= 0

\* C2: a trigger fired while the state does not match its source (or its guard
\* is false) is rejected: the step of that call leaves the FSM state and the
\* escrow as they were and appends no event.
C2_RejectedTriggerChangesNothing ==
    [][(last'.trigger # "none" /\ ~last'.fired)
         => (state' = state /\ credit_escrow' = credit_escrow /\ log' = log)]_vars

\* C3: state, escrow and inventory change only in a call that appended its
\* event first (the step appends, or it ends a handler that has appended), and
\* a call whose append failed leaves state, escrow and inventory unchanged.
C3_MutationOnlyAfterAppend ==
    [][/\ (state' # state \/ credit_escrow' # credit_escrow \/ inventory' # inventory)
            => (Len(log') = Len(log) + 1 \/ pc # "ready")
       /\ (last'.result = "OSError")
            => (state' = state /\ credit_escrow' = credit_escrow /\ inventory' = inventory)
      ]_vars

TableSteps ==
    {<<"idle", "interacting_with_user">>, <<"interacting_with_user", "dispensing">>,
     <<"dispensing", "interacting_with_user">>, <<"dispensing", "idle">>,
     <<"error", "idle">>} \cup {<<s, "error">> : s \in States}

\* C4: the FSM state is always one of idle, interacting_with_user, dispensing,
\* error, and every change of it is one of the six transitions of the table.
C4_OnlyTableTransitions ==
    /\ state \in States
    /\ [][state' \in States /\ (state' # state => <<state, state'>> \in TableSteps)]_vars

\* C4 witness: reset_state has taken the machine from error to idle.
C4_Witness == last.op = "reset_state" /\ last.fired /\ state = "idle"

\* C5: the machine enters dispensing only in a step that found the escrow at
\* least the price of the selected product; a payment check that finds the
\* escrow below the price does not enter dispensing.
C5_DispenseOnlyWhenCovered ==
    [][/\ (state # "dispensing" /\ state' = "dispensing")
            => (selected_product # NoProduct /\ credit_escrow >= SelectedPrice)
       /\ (state # "dispensing" /\ credit_escrow < SelectedPrice)
            => state' # "dispensing"
       /\ (last'.op = "_process_payment" /\ last'.result = "insufficient")
            => (credit_escrow < SelectedPrice /\ state' = state)
      ]_vars

\* C5 witness: a payment check has entered dispensing.
C5_Witness ==
    last.op = "_process_payment" /\ last.result = "dispensing" /\ state = "dispensing"

\* C6: a dispense completion leaves dispensing by exactly one branch: to
\* interacting_with_user when the escrow is > 0, to idle when it is = 0.
C6_CompletionBranch ==
    [][/\ (last'.op = "_finish_dispensing" /\ last'.result = "ok")
            => (state = "dispensing" /\ state' \in {"idle", "interacting_with_user"})
       /\ (state = "dispensing" /\ state' \notin {"dispensing", "error"})
            => /\ credit_escrow' = credit_escrow
               /\ (credit_escrow > 0 => state' = "interacting_with_user")
               /\ (credit_escrow = 0 => state' = "idle")
      ]_vars

\* C6 witness: a completion with escrow 0 has returned the machine to idle.
C6_Witness ==
    /\ last.op = "_finish_dispensing" /\ last.result = "ok"
    /\ state = "idle" /\ credit_escrow = 0

\* C7: the race returns the gateway whose task was the first to report
\* success, and every task still in flight when it returns has been cancelled.
C7_ReturnsFirstSuccess ==
    (main = "returned" /\ success_order # <<>>)
        => /\ ret = success_order[1]
           /\ \A g \in gateways \ {ret} : tpc[g] \in {"cancelling", "cancelled", "done"}

\* C8: the race returns failure only when every gateway has failed or timed out.
C8_FailureOnlyWhenAllFailed ==
    (main = "returned" /\ ret = NoGateway)
        => \A g \in gateways : tpc[g] = "done" /\ tresult[g] = NoGateway

\* C9: when the race has returned, no polling task of it is still running.
C9_NoTaskOutlivesReturn ==
    main = "returned" => \A g \in gateways : tpc[g] \in {"done", "cancelled"}

\* the default state of a recovery without snapshot counts as idle
AsLive(fsm) == IF fsm = "startup" THEN "idle" ELSE fsm

\* C10: at every point where the process can crash, loading the snapshot and
\* replaying the log yields the FSM state and the escrow the process had.
C10_RecoveryReproducesLiveState ==
    /\ AsLive(Recover(snapshot, log).fsm_state) = state
    /\ Recover(snapshot, log).credit_escrow = credit_escrow

\* C11: write_snapshot replaces the snapshot atomically: once a complete
\* snapshot is on disk, a reader (or a restart after a crash) finds a complete
\* snapshot at every later point, never an empty or partial file.
C11_SnapshotReplacedAtomically ==
    [][snapshot.kind = "full" => snapshot'.kind = "full"]_vars

\* the records of a log that their event class accepts, of one type, in order
WellFormed(lg, type) == SelectSeq(lg, LAMBDA l : l.form = "event" /\ l.type = type)

\* C12: replay returns, in log order, exactly the well-formed records of the
\* requested type; a malformed line is skipped and never aborts the replay, so
\* the state rebuilt from the log equals the one rebuilt without that line.
C12_ReplaySkipsMalformed ==
    replayed.ran =>
        /\ ~replayed.raised
        /\ replayed.events = WellFormed(log, replayed.type)
        /\ replayed.type = "transaction" =>
               ReplayInto(MachineState("startup", 0), replayed.events)
                 = ReplayInto(MachineState("startup", 0), WellFormed(log, "transaction"))

\* C13: a select_product that is rejected as sold out (tracked product with
\* inventory_count <= 0) is not delegated to the FSM: the FSM state, the escrow
\* and the current product selection stay as they were.
C13_SoldOutChangesNothing ==
    [][(last'.op = "select_product" /\ last'.result = "sold_out")
          => /\ state' = state
             /\ credit_escrow' = credit_escrow
             /\ selected_product' = selected_product
      ]_vars

\* C14: inventory_count of every tracked product is >= 0 in every reachable
\* state, and inventory is changed only by the dispense-completion step, by
\* exactly one unit of a product that tracks inventory.
C14_InventoryOnlyByDispense ==
    /\ [](\A p \in Products : TrackInventory(p) => inventory[p] >= 0)
    /\ [][inventory' # inventory
            => /\ last'.op = "_finish_dispensing"
               /\ \E p \in Products :
                     /\ TrackInventory(p)
                     /\ inventory' = [inventory EXCEPT ![p] = @ - 1]
        ]_vars

\* C15: select_product is accepted only in idle or interacting_with_user;
\* accepted in idle it fires start_interaction, so the machine is
\* interacting_with_user afterwards; called in dispensing or error it changes
\* neither the selected product nor the state.
C15_SelectOnlyWhenReady ==
    [][last'.op = "select_product"
          => /\ last'.result = "ok" => state \in {"idle", "interacting_with_user"}
             /\ (last'.result = "ok" /\ state = "idle")
                   => state' = "interacting_with_user"
             /\ state \in {"dispensing", "error"}
                   => (selected_product' = selected_product /\ state' = state)
      ]_vars

\* C16: deposit_funds and request_refund never change the FSM state, only the
\* escrow, and they are accepted only in idle or interacting_with_user: called
\* in dispensing or error they leave the escrow unchanged.
C16_LedgerCallsOnlyWhenReady ==
    [][last'.op \in {"deposit_funds", "request_refund"}
          => /\ state' = state
             /\ selected_product' = selected_product
             /\ state \in {"dispensing", "error"} => credit_escrow' = credit_escrow
      ]_vars

\* C17: error_occurred is accepted in every state and always leads to error;
\* once in error, the only call that changes the state is reset_state, and
\* reset_state leads to idle.
C17_FaultAndRecover ==
    [][/\ last'.op = "error_occurred" => state' = "error"
       /\ (state = "error" /\ state' # "error")
             => (last'.op = "reset_state" /\ state' = "idle")
       /\ (state = "error" /\ last'.op = "reset_state") => state' = "idle"
      ]_vars

\* C17 witness: a fault raised while a dispense was in flight has put the
\* machine into error.
C17_Witness ==
    /\ last.op = "error_occurred"
    /\ state = "error"
    /\ pendingFD > 0

\* C18: deposit_funds(amount) with amount <= 0 fails with InvalidAmount and
\* leaves the escrow unchanged; with amount > 0 it increases the escrow by
\* exactly amount.
C18_DepositValidatesAmount ==
    [][last'.op = "deposit_funds"
          => /\ last'.amount <= 0
                   => (last'.result = "InvalidAmount" /\ credit_escrow' = credit_escrow)
             /\ last'.amount > 0
                   => credit_escrow' = credit_escrow + last'.amount
      ]_vars

\* C19: a spend (the payment step for the selected product's price) with
\* escrow < price fails as insufficient funds and leaves the escrow and the
\* FSM state unchanged; otherwise it decreases the escrow by exactly the price.
C19_SpendChecksFunds ==
    [][(last'.op = "_process_payment" /\ last'.result # "aborted")
          => /\ credit_escrow < SelectedPrice
                   => /\ last'.result = "insufficient"
                      /\ credit_escrow' = credit_escrow
                      /\ state' = state
             /\ credit_escrow >= SelectedPrice
                   => /\ last'.result = "dispensing"
                      /\ credit_escrow' = credit_escrow - SelectedPrice
      ]_vars

\* C19 witness: a spend was refused with part of the price in escrow, and
\* the machine is still waiting for the customer.
C19_Witness ==
    /\ last.op = "_process_payment"
    /\ last.result = "insufficient"
    /\ credit_escrow > 0
    /\ state = "interacting_with_user"

\* C20: request_refund returns the current escrow and resets the escrow to 0;
\* when the escrow is already 0 it returns 0 and changes nothing, so a second
\* refund right after a refund always returns 0.
C20_RefundReturnsEscrow ==
    [][last'.op = "request_refund"
          => /\ credit_escrow > 0
                   => (last'.amount = credit_escrow /\ credit_escrow' = 0)
             /\ credit_escrow = 0
                   => (last'.amount = 0 /\ credit_escrow' = 0)
             /\ last.op = "request_refund" => last'.amount = 0
             /\ UNCHANGED <<state, selected_product, inventory, storeVars>>
      ]_vars

\* C20 witness: a refund has returned a positive escrow and left it at 0.
C20_Witness ==
    /\ last.op = "request_refund"
    /\ last.result = "refunded"
    /\ last.amount > 0
    /\ credit_escrow = 0

\* C21: a race started with no configured gateway returns at once with the
\* failure result (no gateway) as a normal return, not as an exception, and
\* launches no polling task.
C21_NoGatewaysFailsNormally ==
    gateways = {} =>
        /\ main \in {"idle", "returned"}
        /\ main = "returned" => ret = NoGateway
        /\ virtual_payment_tasks = {}
        /\ \A g \in AllGateways : tpc[g] = "none"

\* C22: cancel_transaction is idempotent and leaks nothing: a call with no
\* task registered (a second cancel, or no race running) changes nothing, and
\* when a cancel call has returned (and no newer race has registered tasks) no
\* polling task is left running.
C22_CancelIdempotentNoLeak ==
    [][/\ (cancels' # cancels /\ virtual_payment_tasks = {})
             => UNCHANGED <<gateways, main, tpc, attempts, tresult, successful_gateway,
                            active, status, virtual_payment_tasks, success_order, ret>>
       /\ (/\ cpc' = "idle"
           /\ cancels' # cancels \/ cpc = "yield"
           /\ virtual_payment_tasks' = {})
             => Running(tpc') = {}
      ]_vars

\* C23: every polling task terminates: it polls at most PollLimit times, one
\* poll per iteration; a poll that reports success ends the task with its own
\* gateway as result, any other end of the task (timeout status or attempts
\* exhausted) gives no gateway; a task goes on sleeping only below the limit,
\* and a waiting race always has a finished task or one that still runs.
C23_PollingTerminates ==
    /\ [](\A g \in AllGateways :
            /\ attempts[g] <= PollLimit
            /\ tpc[g] = "sleeping" => attempts[g] < PollLimit)
    /\ [][\A g \in AllGateways :
            (attempts'[g] # attempts[g] /\ attempts'[g] # 0)
               => /\ attempts'[g] = attempts[g] + 1
                  /\ tpc[g] = "sleeping"
                  /\ success_order' # success_order
                        => (tpc'[g] = "done" /\ tresult'[g] = g)
                  /\ (tpc'[g] = "done" /\ success_order' = success_order)
                        => tresult'[g] = NoGateway
        ]_vars
    /\ [](main = "waiting"
            => \/ Done(tpc) # {} \/ Cancelled(tpc) # {}
               \/ \E g \in gateways : tpc[g] \in {"new", "sleeping", "cancelling"})

\* C23 witness: a task has used all its attempts without a success and the
\* race has ended with the failure result.
C23_Witness ==
    /\ main = "returned"
    /\ ret = NoGateway
    /\ \E g \in gateways :
          /\ attempts[g] = PollLimit
          /\ tpc[g] = "done"
          /\ tresult[g] = NoGateway

\* C24: append_event adds exactly one record at the end of the log and the
\* record is in the file when the call returns; the records already there are
\* kept as they are and in their order, and the log loses records only when
\* write_snapshot clears it after the snapshot was written.
C24_AppendOnlyLog ==
    [][/\ (pc = "ready" /\ last'.op = "complete_transaction" /\ last'.result = "ok")
             => /\ Len(log') = Len(log) + 1
                /\ SubSeq(log', 1, Len(log)) = log
                /\ log'[Len(log')].type = "transaction"
                /\ events_since_snapshot' = events_since_snapshot + 1
       /\ (log' # log /\ pc = "ready")
             => (last'.op = "complete_transaction" /\ last'.result = "ok")
       /\ (log' # log /\ pc # "ready")
             => (pc = "ws_clear" /\ log' = <<>> /\ snapshot.kind = "full")
      ]_vars

\* C24 witness: a second record has been appended behind the first.
C24_Witness ==
    /\ Len(log) = 2
    /\ last.op = "complete_transaction"
    /\ last.result = "ok"

C26_StartsWithoutSnapshot ==
    \A i \in DOMAIN recoveries :
        (snapshot.kind = "empty" /\ ~replay_events(log, "transaction").raised) =>
            /\ recoveries[i].raised = "no"
            /\ log = <<>> =>
                   /\ recoveries[i].state.fsm_state = "idle"
                   /\ recoveries[i].state.credit_escrow = 0

C28_SnapshotRoundTrip ==
    written.ran =>
        /\ ~written.raised
        /\ load_latest_snapshot(snapshot).present
        /\ load_latest_snapshot(snapshot).snap.state = written.arg
        /\ log = <<>>

\* C29: a purchase paid with exactly the price (escrow 125, product priced 125)
\* goes from Dispensing back to Idle with escrow 0 and leaves in the event log
\* exactly one deposit record and one spend record for it, in that order.
C29_ExactPaymentLogged ==
    [][(/\ pc = "ready"
        /\ last.op = "process_payment" /\ last.result = "dispensed"
        /\ last.amount = 125
        /\ credit_escrow = 0
        /\ log = <<>>
        /\ last'.op = "complete_transaction" /\ last'.result = "ok")
       => /\ state = "dispensing" /\ state' = "idle"
          /\ credit_escrow' = 0
          /\ Len(log') = 2
          /\ log'[1].type = "deposited" /\ log'[1].amount = 125
          /\ log'[2].type = "transaction" /\ log'[2].amount = 125]_vars

\* C30: a purchase paid with more than the price (escrow 200, product priced
\* 125) leaves escrow 75 when the payment is taken, and the dispense completion
\* that follows ends in interacting_with_user, not in idle, with escrow still 75.
C30_OverpaymentKeepsChange ==
    [][/\ (/\ last'.op = "_process_payment" /\ last'.result = "dispensing"
           /\ credit_escrow = 200 /\ SelectedPrice = 125)
            => (credit_escrow' = 75 /\ state' = "dispensing")
       /\ (/\ last.op = "_process_payment" /\ last.result = "dispensing"
           /\ last.amount = 125 /\ credit_escrow = 75
           /\ last'.op = "_finish_dispensing" /\ last'.result = "ok")
            => /\ state' = "interacting_with_user"
               /\ state' # "idle"
               /\ credit_escrow' = 75
      ]_vars

\* C30 witness: the dispense of the product priced 125 has completed with
\* escrow 75 left and the machine is interacting with the user.
C30_Witness ==
    /\ last.op = "_finish_dispensing" /\ last.result = "ok"
    /\ selected_product # NoProduct /\ SelectedPrice = 125
    /\ state = "interacting_with_user" /\ credit_escrow = 75

\* C31: a payment check that finds the escrow below the price of the selected
\* product (escrow 100, price 150) leaves the machine in interacting_with_user,
\* reports insufficient funds with the required amount price minus escrow (50),
\* does not enter dispensing, leaves the escrow unchanged and appends no record
\* to the event log.
C31_UnderpaymentStaysInteracting ==
    [][(/\ pc = "ready"
        /\ state = "interacting_with_user"
        /\ selected_product # NoProduct
        /\ credit_escrow < SelectedPrice
        /\ last'.op \in {"_process_payment", "process_payment"})
       => /\ last'.result = "insufficient"
          /\ last'.amount = SelectedPrice - credit_escrow
          /\ state' = "interacting_with_user"
          /\ credit_escrow' = credit_escrow
          /\ log' = log]_vars

\* C31 witness: the payment check found escrow 100 against the price 150 and
\* reported 50 as required.
C31_Witness ==
    /\ last.op = "process_payment" /\ last.result = "insufficient"
    /\ last.amount = 50
    /\ credit_escrow = 100 /\ SelectedPrice = 150
    /\ state = "interacting_with_user"

\* C32: with virtual gateways configured, a payment check that finds the escrow
\* short runs the payment race before it reports insufficient funds (so the
\* report is only seen after a race that returned no gateway), and a race that
\* returns a gateway deposits the amount into the escrow.
C32_PaymentRunsRace ==
    /\ (last.op = "_process_payment" /\ last.result = "insufficient" /\ gateways # {})
          => (main = "returned" /\ ret = NoGateway)
    /\ [][(main # "returned" /\ main' = "returned" /\ ret' # NoGateway)
             => credit_escrow' > credit_escrow]_vars

C34_MigrateIdempotent ==
    [][migrations' = migrations + 1 =>
          /\ migrations >= 1 =>
                 (config' = config /\ config_file' = config_file /\ saves' = saves)
          /\ config.config_version = DefaultVersion =>
                 (config' = config /\ config_file' = config_file /\ saves' = saves)
          /\ config'.config_version = DefaultVersion
          /\ config'.firmware_version = config.firmware_version]_vars

\* C34 witness: an outdated configuration was migrated and saved, and
\* migrate_config has run again on the result.
C34_Witness ==
    /\ migrations = 2
    /\ saves = 1
    /\ config.config_version = DefaultVersion
    /\ config.firmware_version = "2.0.0"
    /\ config_file = config

\* C35: when a start_transaction call has ended in success, the registered
\* callback has been notified of payment_success exactly once for that race.
C35_SuccessNotifiedOnce ==
    (main = "returned" /\ ret # NoGateway) => payment_success_notified = 1

\* C36: customer money is conserved: in every reachable state the deposits equal
\* the escrow plus the refunds paid out plus the prices of the dispenses that
\* were started; no operation, fault and reset included, discards escrow
\* without refunding it.
C36_MoneyConserved == owed = credit_escrow

\* C37: the selected product does not change while the machine is dispensing:
\* no step taken in dispensing changes the selection, so the product handled at
\* the dispense completion is the one whose price was deducted.
C37_SelectionFixedWhileDispensing ==
    [][state = "dispensing" => selected_product' = selected_product]_vars

\* C38: when cancel_transaction has cancelled the polling tasks start_transaction
\* is waiting on, start_transaction still ends without raising, with active
\* False, a status of cancelled or failure, and no gateway returned.
C38_CancelledRaceEndsQuietly ==
    [][(main = "waiting" /\ Cancelled(tpc) # {} /\ main' # "waiting")
          => /\ main' = "returned"
             /\ active' = FALSE
             /\ status' \in {"cancelled", "failure"}
             /\ ret' = NoGateway]_vars

\* C39: the number of records in the event log always equals the store's
\* events-since-snapshot counter, also after the process has restarted with a
\* non-empty log, so that the log never holds more than snapshot_every records.
C39_LogLengthIsCounter ==
    /\ Len(log) = events_since_snapshot
    /\ Len(log) <= SnapshotEvery

\* C40: MessageManager shows posted messages one at a time in the order they
\* were posted, and a message gives way to the next one only when its full
\* duration has passed; while the queue is non-empty exactly one timeout is
\* pending and it is the one of the message on the display, the display is
\* clear when the queue is empty, and no timeout of a message removed by
\* clear_all is left to fire.
C40_MessagesInOrderOneTimer ==
    /\ [](\A i \in 1..Len(shown) :
             /\ shown[i].n \in 1..Len(posted)
             /\ shown[i].message = posted[shown[i].n].message
             /\ shown[i].duration = posted[shown[i].n].duration
             /\ \A j \in 1..Len(shown) : i < j => shown[i].n < shown[j].n)
    /\ [](queue # <<>> =>
             /\ display = Head(queue).message
             /\ shown # <<>> /\ shown[Len(shown)].n = Head(queue).n
             /\ timers # {}
             /\ \A t \in timers : t.id = current_timer /\ t.id = Len(shown)
             /\ \A i \in 1..Len(queue) - 1 : queue[i + 1].n = queue[i].n + 1)
    /\ [](queue = <<>> => display = "" /\ timers = {})
    /\ [][(Len(shown') > Len(shown) /\ queue # <<>>)
             => /\ shown[Len(shown)].age >= shown[Len(shown)].duration
                /\ shown'[Len(shown')].n = shown[Len(shown)].n + 1]_vars

C40_Witness ==
    /\ Len(shown) = 3
    /\ shown[1].age = shown[1].duration
    /\ shown[2].age < shown[2].duration
    /\ queue # <<>> /\ Head(queue).n = 3
    /\ display = posted[3].message

====
